---- MODULE Spec2Model ----
(***************************************************************************)
(* A model of nannou_webp_animation's decoder (src/src/decoder.rs):        *)
(* WebpDecoder::decode as a state machine over its statements, with the    *)
(* libwebp demuxer, the frame iterator and the codec's pixel buffer as     *)
(* resources, and clear_canvas_area / blend_frame_onto_canvas as           *)
(* operators computed the way the loops compute them.                      *)
(***************************************************************************)
EXTENDS Integers, Sequences, FiniteSets, TLC

\* ------------------------------------------------------------------ bounds

\* The most tiles the frame iterator yields in one decode.
MaxTiles == 2

\* ------------------------------------------------------- program constants

\* Byte counts and byte indices are u32 and wrap at 2^32 (release build). Every
\* one of them is four times a pixel count, (n * 4) % 2^32 = 4 * (n % 2^30),
\* so the model counts pixels and wraps them at 2^30.
PixelWrap == 1073741824

\* The canvases a container declares: a small one whose pixels are followed
\* one by one, and the largest square one libwebp accepts whose byte size
\* width * height * 4 no longer fits in a u32.
CanvasDims == {<<2, 2>>, <<32768, 32768>>}

\* Placement rectangles <<x_offset, y_offset, width, height>> of a tile: the
\* full small canvas, a strict sub-rectangle, one that overhangs the right
\* edge of the small canvas.
Rects == {<<0, 0, 2, 2>>, <<1, 0, 1, 1>>, <<1, 0, 2, 1>>}

\* Per-frame durations (ms) a container stores.
Durations == {40, 100}

Transparent == <<0, 0, 0, 0>>
RedHalf == <<255, 0, 0, 128>>
Blue == <<0, 0, 255, 255>>

\* What a tile's compressed payload holds: nothing decodable, an image of no
\* pixels, or an image of one colour.
Payloads == {"corrupt", "empty", "red", "blue"}

DisposeMethods == {"NONE", "BACKGROUND"}
BlendMethods == {"BLEND", "NO_BLEND"}

\* WebPIterator: the fields of the iterator decode reads.
Tiles ==
  [x_offset : {r[1] : r \in Rects}, y_offset : {r[2] : r \in Rects},
   width : {r[3] : r \in Rects}, height : {r[4] : r \in Rects},
   dispose_method : DisposeMethods, blend_method : BlendMethods,
   duration : Durations, fragment : Payloads]

TileSet ==
  {t \in Tiles : <<t.x_offset, t.y_offset, t.width, t.height>> \in Rects}

\* mem::MaybeUninit::zeroed(): the iterator before WebPDemuxGetFrame fills it.
ZeroedIter ==
  [x_offset |-> 0, y_offset |-> 0, width |-> 0, height |-> 0,
   dispose_method |-> "NONE", blend_method |-> "BLEND",
   duration |-> 0, fragment |-> "corrupt"]

\* A frame's footprint: where it was placed, how it was drawn and how it is
\* to be disposed of.
Footprint(t) ==
  [x_offset |-> t.x_offset, y_offset |-> t.y_offset, width |-> t.width,
   height |-> t.height, dispose_method |-> t.dispose_method,
   blend_method |-> t.blend_method]

\* ----------------------------------------------------------- error strings

ErrIo == "io error"
ErrDemux == "Failed to create WebPDemuxer"
ErrNoFrames == "No frames found in the animation"
ErrDecode == "Failed to decode frame"
ErrImage == "Failed to create image from canvas data"
ErrGetFrame == "Failed to get frames from WebP animation"

Pending == [kind |-> "none", frames |-> <<>>, msg |-> ""]
Err(m) == [kind |-> "Err", frames |-> <<>>, msg |-> m]
Ok(fs) == [kind |-> "Ok", frames |-> fs, msg |-> ""]

\* ------------------------------------------------------------ pixel helpers

\* vec![0u8; (canvas_width * canvas_height * 4) as usize], in pixels.
ZeroCanvas(width, height) ==
  [p \in 1..((width * height) % PixelWrap) |-> Transparent]

\* ((y * canvas_width + x) * 4) as usize, computed in u32, in pixels: the
\* pixel that starts at that byte.
PixelIdx(canvas_width, x, y) == (y * canvas_width + x) % PixelWrap

\* The coordinates a pair of nested for loops visits, in order.
RECURSIVE Coords(_, _, _, _)
Coords(x0, x1, y0, y1) ==
  IF y0 >= y1 THEN <<>>
  ELSE [i \in 1..(IF x1 > x0 THEN x1 - x0 ELSE 0) |-> <<x0 + i - 1, y0>>]
       \o Coords(x0, x1, y0 + 1, y1)

\* if idx + 4 <= canvas.len(): the only check the clearing loop makes.
Clears(canvasLen, canvas_width, x, y) ==
  PixelIdx(canvas_width, x, y) + 1 <= canvasLen

RECURSIVE ClearLoop(_, _, _)
ClearLoop(canvas, canvas_width, cs) ==
  IF cs = <<>> THEN canvas
  ELSE LET idx == PixelIdx(canvas_width, cs[1][1], cs[1][2])
           next == IF Clears(Len(canvas), canvas_width, cs[1][1], cs[1][2])
                   THEN [canvas EXCEPT ![idx + 1] = Transparent]
                   ELSE canvas
       IN ClearLoop(next, canvas_width, Tail(cs))

clear_canvas_area(canvas, canvas_width, x_offset, y_offset, width, height) ==
  ClearLoop(canvas, canvas_width,
            Coords(x_offset, x_offset + width, y_offset, y_offset + height))

\* Alpha taken as a fraction of 256, by a shift.
BlendChannel_Over256(src, dst, alpha) ==
  (2 * (src * alpha + dst * (256 - alpha)) + 256) \div 512

\* The float cast to u8 without round(): truncation.
BlendChannel_Truncate(src, dst, alpha) ==
  (src * alpha + dst * (255 - alpha)) \div 255

\* (src as f32 * a / 255 + dst as f32 * (1 - a / 255)).round() as u8: the sum
\* is never half-way between two integers, so rounding to nearest is exact.
BlendChannel(src, dst, alpha) ==
  (2 * (src * alpha + dst * (255 - alpha)) + 255) \div 510

BlendPixel(src, dst) ==
  <<BlendChannel(src[1], dst[1], src[4]), BlendChannel(src[2], dst[2], src[4]),
    BlendChannel(src[3], dst[3], src[4]), 255>>

\* Every channel blended, the alpha included.
Composite_AlwaysBlend(src, dst, blend) == BlendPixel(src, dst)

\* The body of the loop for one pixel: if blend { the alpha blend } else
\* { dst_pixel.copy_from_slice(src_pixel) }.
Composite(src, dst, blend) == IF blend THEN BlendPixel(src, dst) ELSE src

\* Whether the loop body reaches the pixel copy for frame pixel (x, y).
Touches(canvasLen, canvas_width, canvas_height, frameLen, frame_width, x_offset, y_offset, x, y) ==
  /\ ~(x + x_offset >= canvas_width \/ y + y_offset >= canvas_height)
  /\ ~(\/ PixelIdx(canvas_width, x + x_offset, y + y_offset) + 1 > canvasLen
       \/ PixelIdx(frame_width, x, y) + 1 > frameLen)

RECURSIVE BlendLoop(_, _, _, _, _, _, _, _, _)
BlendLoop(canvas, canvas_width, canvas_height, frame_data, frame_width, x_offset, y_offset, blend, cs) ==
  IF cs = <<>> THEN canvas
  ELSE LET x == cs[1][1]
           y == cs[1][2]
           ci == PixelIdx(canvas_width, x + x_offset, y + y_offset) + 1
           fi == PixelIdx(frame_width, x, y) + 1
           next ==
             IF Touches(Len(canvas), canvas_width, canvas_height,
                        Len(frame_data), frame_width, x_offset, y_offset, x, y)
             THEN [canvas EXCEPT ![ci] = Composite(frame_data[fi], canvas[ci], blend)]
             ELSE canvas
       IN BlendLoop(next, canvas_width, canvas_height, frame_data, frame_width,
                    x_offset, y_offset, blend, Tail(cs))

blend_frame_onto_canvas(canvas, canvas_width, canvas_height, frame_data, frame_width, frame_height, x_offset, y_offset, blend) ==
  BlendLoop(canvas, canvas_width, canvas_height, frame_data, frame_width,
            x_offset, y_offset, blend, Coords(0, frame_width, 0, frame_height))

\* The canvas pixels (by index, from 0) the clearing loop writes: those of the
\* rectangle's coordinates that pass its check.
ClearWrites(canvasLen, canvas_width, x_offset, y_offset, width, height) ==
  {PixelIdx(canvas_width, c[1], c[2]) :
     c \in {d \in (x_offset..(x_offset + width - 1)) \X (y_offset..(y_offset + height - 1)) :
              Clears(canvasLen, canvas_width, d[1], d[2])}}

\* The canvas pixels the blending loop writes.
BlendWrites(canvasLen, canvas_width, canvas_height, frameLen, frame_width, frame_height, x_offset, y_offset) ==
  {PixelIdx(canvas_width, c[1] + x_offset, c[2] + y_offset) :
     c \in {d \in (0..(frame_width - 1)) \X (0..(frame_height - 1)) :
              Touches(canvasLen, canvas_width, canvas_height, frameLen,
                      frame_width, x_offset, y_offset, d[1], d[2])}}

\* ------------------------------------------------------------ the codec

NoBuffer == [state |-> "none", width |-> 0, height |-> 0, data |-> <<>>]

\* WebPDecodeRGBA on a tile's payload: a null pointer, or a buffer the codec
\* owns with the dimensions it wrote to frame_width and frame_height.
WebPDecodeRGBA(t) ==
  CASE t.fragment = "corrupt" -> NoBuffer
    [] t.fragment = "empty" ->
         [state |-> "live", width |-> 0, height |-> 0, data |-> <<>>]
    [] t.fragment = "red" ->
         [state |-> "live", width |-> t.width, height |-> t.height,
          data |-> [i \in 1..(t.width * t.height) |-> RedHalf]]
    [] OTHER ->
         [state |-> "live", width |-> t.width, height |-> t.height,
          data |-> [i \in 1..(t.width * t.height) |-> Blue]]

\* What a read through a pointer into the codec's buffer can return: the
\* buffer's pixels while it is live; anything once it was freed.
Observed(buf, len) ==
  IF buf.state = "live" THEN {buf.data}
  ELSE {[i \in 1..len |-> c] : c \in {RedHalf, Blue}}

\* create_image_from_raw: ImageBuffer::from_raw takes the buffer only when it
\* holds width * height pixels.
create_image_from_raw(width, height, rgba_data) ==
  IF Len(rgba_data) >= width * height
  THEN [some |-> TRUE, width |-> width, height |-> height, data |-> rgba_data]
  ELSE [some |-> FALSE, width |-> 0, height |-> 0, data |-> <<>>]

\* -------------------------------------------------------------------- state

VARIABLES
  pc,             \* the statement decode is at
  demux,          \* the WebPDemuxer: none, live, deleted
  iterState,      \* the WebPIterator: unset, acquired, released
  iter,           \* the iterator's current frame
  prev,           \* the footprint of the frame the iterator held before
                  \* the current one
  durations,      \* the durations of the frames yielded so far, in order
  canvas_width, canvas_height, frame_count,
  canvas,         \* the canvas, one entry per RGBA pixel
  frames,         \* the frames pushed so far: [image, duration]
  rgba,           \* the buffer WebPDecodeRGBA returned (rgba_ptr)
  frame_slice,    \* the slice over the tile's pixels: [owned, len]
  seen,           \* the tile pixels the last blend read through frame_slice
  readFreed,      \* whether a blend has read through a freed buffer
  result,         \* what decode returned
  before,         \* the canvas a disposal or a blend was applied to
  op,             \* the disposal or blend last applied: its arguments
  current_frame_index, last_frame_time, is_looping, textures,
                  \* WebpAnimation's fields (frames is its fifth)
  now,            \* Instant::now(), in ms
  drawn           \* what the last draw put on screen

\* What a decode leaves alone: the arguments of a lone disposal or blend, and
\* a WebpAnimation with its clock.
pixelVars == <<before, op>>
playVars == <<current_frame_index, last_frame_time, is_looping, textures, now, drawn>>

vars == <<pc, demux, iterState, iter, prev, durations, canvas_width, canvas_height,
          frame_count, canvas, frames, rgba, frame_slice, seen, readFreed,
          result, pixelVars, playVars>>

NoOp == [kind |-> "none"]
NoDraw == [kind |-> "none"]

NoSlice == [owned |-> FALSE, len |-> 0]

Init ==
  /\ pc = "read"
  /\ demux = "none"
  /\ iterState = "unset"
  /\ iter = ZeroedIter
  /\ prev = Footprint(ZeroedIter)
  /\ durations = <<>>
  /\ canvas_width = 0
  /\ canvas_height = 0
  /\ frame_count = 0
  /\ canvas = <<>>
  /\ frames = <<>>
  /\ rgba = NoBuffer
  /\ frame_slice = NoSlice
  /\ seen = <<>>
  /\ readFreed = FALSE
  /\ result = Pending
  /\ before = <<>>
  /\ op = NoOp
  /\ current_frame_index = 0
  /\ last_frame_time = 0
  /\ is_looping = FALSE
  /\ textures = <<>>
  /\ now = 0
  /\ drawn = NoDraw

\* return: the locals (canvas, frames, the slice) go out of scope; the
\* handles are whatever the path left them.
Return(r) ==
  /\ pc' = "done"
  /\ result' = r

\* File::open and read_to_end.
ReadFile ==
  /\ pc = "read"
  /\ \E readable \in BOOLEAN :
       IF readable
       THEN pc' = "demux" /\ result' = result
       ELSE Return(Err(ErrIo))
  /\ UNCHANGED <<demux, iterState, iter, prev, durations, canvas_width, canvas_height,
                 frame_count, canvas, frames, rgba, frame_slice, seen,
                 readFreed>>
  /\ UNCHANGED <<pixelVars, playVars>>

\* WebPDemux and the null check.
Demux ==
  /\ pc = "demux"
  /\ \E wellformed \in BOOLEAN :
       IF wellformed
       THEN demux' = "live" /\ pc' = "info" /\ result' = result
       ELSE demux' = demux /\ Return(Err(ErrDemux))
  /\ UNCHANGED <<iterState, iter, prev, durations, canvas_width, canvas_height,
                 frame_count, canvas, frames, rgba, frame_slice, seen,
                 readFreed>>
  /\ UNCHANGED <<pixelVars, playVars>>

\* WebPDemuxGetI for the canvas and the frame count, the frame_count == 0
\* exit, and the canvas, frames and iterator locals.
GetInfo ==
  /\ pc = "info"
  /\ \E d \in CanvasDims, n \in 0..MaxTiles :
       /\ canvas_width' = d[1]
       /\ canvas_height' = d[2]
       /\ frame_count' = n
       /\ IF n = 0
          THEN /\ demux' = "deleted"
               /\ Return(Err(ErrNoFrames))
               /\ canvas' = canvas
          ELSE /\ demux' = demux
               /\ canvas' = ZeroCanvas(d[1], d[2])
               /\ pc' = "getframe"
               /\ result' = result
  /\ UNCHANGED <<iterState, iter, prev, durations, frames, rgba, frame_slice, seen,
                 readFreed>>
  /\ UNCHANGED <<pixelVars, playVars>>

\* The else branch falls through to the end of decode.
GetFrameFailed_FallThrough ==
  /\ pc' = "delete"
  /\ UNCHANGED <<demux, result, iter, durations, iterState>>

\* The else branch returns the message of the frame_count == 0 exit.
GetFrameFailed_NoFrames ==
  /\ demux' = "deleted"
  /\ Return(Err(ErrNoFrames))
  /\ UNCHANGED <<iter, durations, iterState>>

\* The else branch deletes the demuxer and falls through to the delete after
\* the if.
GetFrameFailed_DeleteTwice ==
  /\ demux' = "deleted"
  /\ pc' = "delete"
  /\ UNCHANGED <<result, iter, durations, iterState>>

\* The else branch of WebPDemuxGetFrame: no first frame.
GetFrameFailed ==
  /\ demux' = "deleted"
  /\ Return(Err(ErrGetFrame))
  /\ UNCHANGED <<iter, durations, iterState>>

\* WebPDemuxGetFrame(demux, 1, &mut iter) and its else branch.
GetFrame ==
  /\ pc = "getframe"
  /\ \/ \E t \in TileSet :
          /\ iter' = t
          /\ durations' = <<t.duration>>
          /\ iterState' = "acquired"
          /\ pc' = "decode"
          /\ UNCHANGED <<demux, result>>
     \/ GetFrameFailed
  /\ UNCHANGED <<prev, canvas_width, canvas_height, frame_count, canvas,
                 frames, rgba, frame_slice, seen, readFreed>>
  /\ UNCHANGED <<pixelVars, playVars>>

\* No null check at all.
DecodeFails_Never(buf) == FALSE

\* The null check, and a check of the dimensions the codec wrote.
DecodeFails_OrZeroDims(buf) ==
  buf.state = "none" \/ buf.width = 0 \/ buf.height = 0

\* rgba_ptr.is_null()
DecodeFails(buf) == buf.state = "none"

\* WebPDecodeRGBA on the current fragment and the null check.
DecodeTile ==
  /\ pc = "decode"
  /\ LET buf == WebPDecodeRGBA(iter)
     IN IF DecodeFails(buf)
        THEN /\ iterState' = "released"
             /\ demux' = "deleted"
             /\ Return(Err(ErrDecode))
             /\ rgba' = buf
        ELSE /\ rgba' = buf
             /\ pc' = "free"
             /\ UNCHANGED <<iterState, demux, result>>
  /\ UNCHANGED <<iter, prev, durations, canvas_width, canvas_height, frame_count,
                 canvas, frames, frame_slice, seen, readFreed>>
  /\ UNCHANGED <<pixelVars, playVars>>

\* slice::from_raw_parts over the codec's buffer, then WebPFree on it.
FreeBuffer ==
  /\ pc = "free"
  /\ frame_slice' = [owned |-> FALSE,
                     len |-> (rgba.width * rgba.height) % PixelWrap]
  /\ rgba' = [rgba EXCEPT !.state = "freed"]
  /\ pc' = "dispose"
  /\ UNCHANGED <<demux, iterState, iter, prev, durations, canvas_width, canvas_height,
                 frame_count, canvas, frames, seen, readFreed, result>>
  /\ UNCHANGED <<pixelVars, playVars>>

\* A fresh canvas for every tile.
Disposed_ResetCanvas(cv, t, cw) == [p \in 1..Len(cv) |-> Transparent]

\* The disposal step: clear_canvas_area when the iterator's dispose method is
\* WEBP_MUX_DISPOSE_BACKGROUND.
Disposed(cv, t, cw) ==
  IF t.dispose_method = "BACKGROUND"
  THEN clear_canvas_area(cv, cw, t.x_offset, t.y_offset, t.width, t.height)
  ELSE cv

Dispose ==
  /\ pc = "dispose"
  /\ canvas' = Disposed(canvas, iter, canvas_width)
  /\ pc' = "blend"
  /\ UNCHANGED <<demux, iterState, iter, prev, durations, canvas_width, canvas_height,
                 frame_count, frames, rgba, frame_slice, seen, readFreed,
                 result>>
  /\ UNCHANGED <<pixelVars, playVars>>

\* Whether blend_frame_onto_canvas reads any pixel of the tile.
ReadsTile ==
  \E x \in 0..(rgba.width - 1), y \in 0..(rgba.height - 1) :
    Touches(Len(canvas), canvas_width, canvas_height, frame_slice.len,
            rgba.width, iter.x_offset, iter.y_offset, x, y)

Blended(cv, data) ==
  blend_frame_onto_canvas(cv, canvas_width, canvas_height, data, rgba.width,
                          rgba.height, iter.x_offset, iter.y_offset,
                          iter.blend_method = "BLEND")

\* blend_frame_onto_canvas over frame_slice. The slice is read only inside
\* the loop, for the pixels that pass its bounds checks: when none does the
\* loop runs over pixels it never looks at; otherwise a read through a freed
\* buffer returns anything, or faults.
Blend ==
  /\ pc = "blend"
  /\ \/ /\ ~ReadsTile
        /\ canvas' = Blended(canvas, [i \in 1..frame_slice.len |-> Transparent])
        /\ seen' = <<>>
        /\ pc' = "snapshot"
        /\ UNCHANGED readFreed
     \/ /\ ReadsTile
        /\ \E data \in Observed(rgba, frame_slice.len) :
             /\ canvas' = Blended(canvas, data)
             /\ seen' = data
        /\ readFreed' = (readFreed \/ (rgba.state = "freed" /\ ~frame_slice.owned))
        /\ pc' = "snapshot"
     \/ /\ ReadsTile
        /\ rgba.state = "freed"
        /\ ~frame_slice.owned
        /\ readFreed' = TRUE
        /\ pc' = "aborted"
        /\ UNCHANGED <<canvas, seen>>
  /\ UNCHANGED <<demux, iterState, iter, prev, durations, canvas_width, canvas_height,
                 frame_count, frames, rgba, frame_slice, result>>
  /\ UNCHANGED <<pixelVars, playVars>>

\* The duration of the frame before, when there is one.
FrameDuration_Previous ==
  IF Len(durations) >= 2 THEN durations[Len(durations) - 1] ELSE iter.duration

\* A default for an animation's first frame.
FrameDuration_FirstDefault ==
  IF Len(durations) = 1 THEN 100 ELSE iter.duration

\* Duration::from_millis(iter.duration as u64)
FrameDuration == iter.duration

\* create_image_from_raw on a clone of the canvas, the ? on its result, and
\* frames.push with the iterator's duration.
Snapshot ==
  /\ pc = "snapshot"
  /\ LET image == create_image_from_raw(canvas_width, canvas_height, canvas)
     IN IF image.some
        THEN /\ frames' = Append(frames, [image |-> image,
                                          duration |-> FrameDuration])
             /\ pc' = "next"
             /\ result' = result
        ELSE /\ Return(Err(ErrImage))
             /\ frames' = frames
  /\ UNCHANGED <<demux, iterState, iter, prev, durations, canvas_width, canvas_height,
                 frame_count, canvas, rgba, frame_slice, seen, readFreed>>
  /\ UNCHANGED <<pixelVars, playVars>>

\* WebPDemuxNextFrame: the next frame, or 0 and the break. The iteration's
\* locals (rgba_ptr, frame_slice) end with it.
NextFrame ==
  /\ pc = "next"
  /\ \/ /\ Len(durations) < MaxTiles
        /\ \E t \in TileSet :
             /\ iter' = t
             /\ durations' = Append(durations, t.duration)
        /\ prev' = Footprint(iter)
        /\ pc' = "decode"
     \/ /\ pc' = "release"
        /\ UNCHANGED <<iter, prev, durations>>
  /\ rgba' = NoBuffer
  /\ frame_slice' = NoSlice
  /\ seen' = <<>>
  /\ UNCHANGED <<demux, iterState, canvas_width, canvas_height, frame_count,
                 canvas, frames, readFreed, result>>
  /\ UNCHANGED <<pixelVars, playVars>>

\* WebPDemuxReleaseIterator after the loop.
ReleaseIterator ==
  /\ pc = "release"
  /\ iterState' = "released"
  /\ pc' = "delete"
  /\ UNCHANGED <<demux, iter, prev, durations, canvas_width, canvas_height, frame_count,
                 canvas, frames, rgba, frame_slice, seen, readFreed, result>>
  /\ UNCHANGED <<pixelVars, playVars>>

\* WebPDemuxDelete and Ok(frames).
Finish ==
  /\ pc = "delete"
  /\ demux' = "deleted"
  /\ Return(Ok(frames))
  /\ UNCHANGED <<iterState, iter, prev, durations, canvas_width, canvas_height,
                 frame_count, canvas, frames, rgba, frame_slice, seen,
                 readFreed>>
  /\ UNCHANGED <<pixelVars, playVars>>

Next ==
  \/ ReadFile \/ Demux \/ GetInfo \/ GetFrame \/ DecodeTile \/ FreeBuffer
  \/ Dispose \/ Blend \/ Snapshot \/ NextFrame \/ ReleaseIterator \/ Finish

Spec == Init /\ [][Next]_vars

\* ------------------------------------- disposal and blending on their own

\* The largest offset and the largest side of a rectangle handed to
\* clear_canvas_area or blend_frame_onto_canvas.
MaxOffset == 2
MaxSide == 2

\* The canvases the two functions are applied to: two by two and one by two
\* pixels, every pixel one of three colours.
PixelDims == {<<2, 2>>, <<1, 2>>}
CanvasColours == {Transparent, Blue, RedHalf}

\* A coloured pixel of alpha 0.
Ghost == <<200, 100, 50, 0>>

\* A tile whose pixels all differ, in colour and in alpha (0, 85, 170, 255,
\* 84, ...).
Ramp(i) == <<(37 * i) % 256, (101 * i) % 256, 255 - i, (85 * (i - 1)) % 256>>

\* The decoded tiles of width * height pixels: one colour, or the ramp.
TileData(width, height) ==
  {[i \in 1..(width * height) |-> c] : c \in {RedHalf, Blue, Ghost}}
    \cup {[i \in 1..(width * height) |-> Ramp(i)]}

\* No decode in progress, no animation built.
DecoderIdle ==
  /\ demux = "none" /\ iterState = "unset"
  /\ iter = ZeroedIter /\ prev = Footprint(ZeroedIter)
  /\ durations = <<>> /\ frame_count = 0
  /\ rgba = NoBuffer /\ frame_slice = NoSlice /\ seen = <<>>
  /\ readFreed = FALSE

PlayerIdle ==
  /\ current_frame_index = 0 /\ last_frame_time = 0 /\ is_looping = FALSE
  /\ textures = <<>> /\ now = 0 /\ drawn = NoDraw

PixelInit ==
  /\ pc = "pixels"
  /\ \E d \in PixelDims :
       /\ canvas_width = d[1]
       /\ canvas_height = d[2]
       /\ canvas \in [1..(d[1] * d[2]) -> CanvasColours]
  /\ before = <<>>
  /\ op = NoOp
  /\ frames = <<>>
  /\ result = Pending
  /\ DecoderIdle
  /\ PlayerIdle

\* One call of clear_canvas_area.
ClearArea ==
  /\ pc = "pixels"
  /\ \E x_offset \in 0..MaxOffset, y_offset \in 0..MaxOffset, width \in 0..MaxSide, height \in 0..MaxSide :
       /\ op' = [kind |-> "clear", x_offset |-> x_offset, y_offset |-> y_offset,
                 width |-> width, height |-> height, frame_data |-> <<>>,
                 blend |-> FALSE]
       /\ canvas' = clear_canvas_area(canvas, canvas_width, x_offset, y_offset,
                                     width, height)
  /\ before' = canvas
  /\ pc' = "cleared"
  /\ UNCHANGED <<demux, iterState, iter, prev, durations, canvas_width, canvas_height,
                 frame_count, frames, rgba, frame_slice, seen, readFreed,
                 result, playVars>>

\* One call of blend_frame_onto_canvas.
BlendFrame ==
  /\ pc = "pixels"
  /\ \E x_offset \in 0..MaxOffset, y_offset \in 0..MaxOffset, width \in 0..MaxSide, height \in 0..MaxSide :
       \E frame_data \in TileData(width, height), blend \in BOOLEAN :
         /\ op' = [kind |-> "blend", x_offset |-> x_offset, y_offset |-> y_offset,
                   width |-> width, height |-> height,
                   frame_data |-> frame_data, blend |-> blend]
         /\ canvas' = blend_frame_onto_canvas(canvas, canvas_width, canvas_height,
                                             frame_data, width, height,
                                             x_offset, y_offset, blend)
  /\ before' = canvas
  /\ pc' = "blended"
  /\ UNCHANGED <<demux, iterState, iter, prev, durations, canvas_width, canvas_height,
                 frame_count, frames, rgba, frame_slice, seen, readFreed,
                 result, playVars>>

PixelNext == ClearArea \/ BlendFrame

PixelSpec == PixelInit /\ [][PixelNext]_vars

\* ----------------------------------------------------------------- playback

\* The most frames of an animation and the longest frame duration, in ticks
\* of the clock.
MaxFrames == 3
MaxDuration == 2

\* Only now - last_frame_time is ever read, and only compared with a frame's
\* duration: the clock counts up to MaxTime and from there on its origin
\* moves instead.
MaxTime == MaxDuration + 1

\* The image of the i-th frame of an animation: one pixel, different for
\* every frame.
PlayImage(i) == create_image_from_raw(1, 1, <<Ramp(i)>>)

\* What decode returns Ok with: one frame per tile, at least one, each with
\* the duration the container stores, 0 included.
PlayFrames ==
  UNION {{[i \in 1..n |-> [image |-> PlayImage(i), duration |-> ds[i]]] :
            ds \in [1..n -> 0..MaxDuration]} : n \in 1..MaxFrames}

\* What decode returns.
DecodeResults ==
  {Err(m) : m \in {ErrIo, ErrDemux, ErrNoFrames, ErrDecode, ErrImage, ErrGetFrame}}
    \cup {Ok(fs) : fs \in PlayFrames}

\* wgpu::Texture::from_image
from_image(image) == [width |-> image.width, height |-> image.height, data |-> image.data]

\* from_file has called decode, which returned.
PlayInit ==
  /\ pc = "from_file"
  /\ result \in DecodeResults
  /\ frames = <<>>
  /\ canvas_width = 0 /\ canvas_height = 0 /\ canvas = <<>>
  /\ before = <<>> /\ op = NoOp
  /\ DecoderIdle
  /\ PlayerIdle

\* WebpAnimation::from_file after decode: the ? on its result, the
\* is_empty check, the textures and the struct.
FromFile ==
  /\ pc = "from_file"
  /\ IF result.kind = "Err"
     THEN /\ pc' = "failed"
          /\ UNCHANGED <<result, frames, playVars>>
     ELSE IF result.frames = <<>>
     THEN /\ pc' = "failed"
          /\ result' = Err(ErrNoFrames)
          /\ UNCHANGED <<frames, playVars>>
     ELSE /\ frames' = result.frames
          /\ textures' = [i \in 1..Len(result.frames) |-> from_image(result.frames[i].image)]
          /\ current_frame_index' = 0
          /\ last_frame_time' = now
          /\ is_looping' = TRUE
          /\ pc' = "playing"
          /\ UNCHANGED <<result, now, drawn>>
  /\ UNCHANGED <<demux, iterState, iter, prev, durations, canvas_width, canvas_height,
                 frame_count, canvas, rgba, frame_slice, seen, readFreed,
                 pixelVars>>

\* The index wraps only when looping, and is not clamped otherwise.
Advance_NoClamp(i, n, looping) ==
  IF i + 1 >= n /\ looping THEN 0 ELSE i + 1

\* The index stops at the last frame, looping or not.
Advance_StopAtEnd(i, n, looping) ==
  IF i + 1 >= n THEN n - 1 ELSE i + 1

\* A frame is skipped when more than the current frame's duration elapsed.
Advance_CatchUp(i, n, looping) ==
  LET step == IF now - last_frame_time > frames[i + 1].duration THEN 2 ELSE 1
  IN IF i + step >= n
     THEN (IF looping THEN (i + step) % n ELSE n - 1)
     ELSE i + step

\* A looping animation restarts on its second frame.
Advance_WrapToOne(i, n, looping) ==
  IF i + 1 >= n
  THEN (IF looping THEN (IF n > 1 THEN 1 ELSE 0) ELSE n - 1)
  ELSE i + 1

\* current_frame_index += 1 and the if that follows it.
Advance(i, n, looping) ==
  IF i + 1 >= n
  THEN (IF looping THEN 0 ELSE n - 1)
  ELSE i + 1

\* self.last_frame_time.elapsed()
Elapsed == now - last_frame_time

\* The frame's clock is restarted on every update.
KeepFrame_Restart ==
  /\ current_frame_index' = current_frame_index
  /\ last_frame_time' = now

\* The if without an else: an update before the duration has elapsed.
KeepFrame == UNCHANGED <<current_frame_index, last_frame_time>>

\* WebpAnimation::update. Indexing frames out of range panics.
Update ==
  /\ pc = "playing"
  /\ IF current_frame_index >= Len(frames)
     THEN /\ pc' = "panicked"
          /\ UNCHANGED <<current_frame_index, last_frame_time>>
     ELSE /\ pc' = pc
          /\ IF Elapsed >= frames[current_frame_index + 1].duration
             THEN /\ current_frame_index'
                       = Advance(current_frame_index, Len(frames), is_looping)
                  /\ last_frame_time' = now
             ELSE KeepFrame
  /\ UNCHANGED <<demux, iterState, iter, prev, durations, canvas_width, canvas_height,
                 frame_count, canvas, frames, rgba, frame_slice, seen,
                 readFreed, result, pixelVars, is_looping, textures, now,
                 drawn>>

\* WebpAnimation::set_looping
SetLooping ==
  /\ pc = "playing"
  /\ \E looping \in BOOLEAN : is_looping' = looping
  /\ UNCHANGED <<pc, demux, iterState, iter, prev, durations, canvas_width,
                 canvas_height, frame_count, canvas, frames, rgba, frame_slice,
                 seen, readFreed, result, pixelVars, current_frame_index,
                 last_frame_time, textures, now, drawn>>

\* WebpAnimation::draw: the texture of the current frame, when there is one.
Draw ==
  /\ pc = "playing"
  /\ drawn' = IF current_frame_index < Len(textures)
              THEN [kind |-> "texture",
                    texture |-> textures[current_frame_index + 1]]
              ELSE [kind |-> "nothing"]
  /\ UNCHANGED <<pc, demux, iterState, iter, prev, durations, canvas_width,
                 canvas_height, frame_count, canvas, frames, rgba, frame_slice,
                 seen, readFreed, result, pixelVars, current_frame_index,
                 last_frame_time, is_looping, textures, now>>

\* Time passes between two calls.
Tick ==
  /\ pc = "playing"
  /\ IF now < MaxTime
     THEN now' = now + 1 /\ last_frame_time' = last_frame_time
     ELSE /\ now' = now
          /\ last_frame_time' = IF last_frame_time > 0 THEN last_frame_time - 1 ELSE 0
  /\ UNCHANGED <<pc, demux, iterState, iter, prev, durations, canvas_width,
                 canvas_height, frame_count, canvas, frames, rgba, frame_slice,
                 seen, readFreed, result, pixelVars, current_frame_index,
                 is_looping, textures, drawn>>

PlayNext == FromFile \/ Update \/ SetLooping \/ Draw \/ Tick

PlaySpec == PlayInit /\ [][PlayNext]_vars

\* Playback in an application that keeps running: update is called again and
\* again (once per frame of the main loop) and the clock keeps advancing.
\* Nothing is assumed of set_looping and draw.
FairPlaySpec == PlaySpec /\ WF_vars(Update) /\ WF_vars(Tick)

\* ------------------------------------------------------------------ claims

\* The canvas of frame n before tile n was composited: the previous output
\* frame, or the fresh canvas for the first tile.
CanvasBefore(n) ==
  IF n = 1 THEN ZeroCanvas(canvas_width, canvas_height)
  ELSE frames[n - 1].image.data

\* The disposal the format describes: the previous frame's footprint is
\* cleared when the previous frame's dispose method is Background.
DisposedOfPrevious(cv) ==
  IF prev.dispose_method = "BACKGROUND"
  THEN clear_canvas_area(cv, canvas_width, prev.x_offset, prev.y_offset,
                         prev.width, prev.height)
  ELSE cv

\* C1: when tile i (i >= 1, counted from 0), decoded to a buffer of the
\* tile's dimensions, has been composited, output frame i is the previous
\* output frame with the previous tile's rectangle cleared if and only if the
\* previous tile's dispose method is Background, and then tile i blended onto
\* it; tile i's own dispose method and rectangle play no part in the clearing.
C1_DisposalOfPreviousTile ==
  (/\ pc = "next" /\ Len(frames) >= 2
   /\ rgba.width = iter.width /\ rgba.height = iter.height) =>
    frames[Len(frames)].image.data
      = Blended(DisposedOfPrevious(CanvasBefore(Len(frames))), seen)

InRect(t, x, y) ==
  /\ t.x_offset <= x /\ x < t.x_offset + t.width
  /\ t.y_offset <= y /\ y < t.y_offset + t.height

CoversCanvas(t) ==
  /\ t.x_offset = 0 /\ t.y_offset = 0
  /\ t.width = canvas_width /\ t.height = canvas_height

StrictlyInside(t) ==
  /\ t.x_offset + t.width <= canvas_width
  /\ t.y_offset + t.height <= canvas_height
  /\ ~CoversCanvas(t)

\* The scenario of C2, at the moment the second output frame was pushed, in a
\* run where the second tile's pixels were read back as the codec wrote them.
C2_Scenario ==
  /\ pc = "next" /\ Len(frames) = 2
  /\ CoversCanvas(prev) /\ prev.blend_method = "NO_BLEND"
  /\ prev.dispose_method = "BACKGROUND"
  /\ StrictlyInside(iter) /\ iter.blend_method = "NO_BLEND"
  /\ rgba.width = iter.width /\ rgba.height = iter.height
  /\ seen = rgba.data

\* C2: first tile over the full canvas, NoBlend, dispose Background; second
\* tile over a strict sub-rectangle, NoBlend: the second output frame is
\* transparent outside the sub-rectangle and the second tile's pixels inside.
C2_DisposalScenario ==
  C2_Scenario =>
    \A x \in 0..(canvas_width - 1), y \in 0..(canvas_height - 1) :
      frames[2].image.data[y * canvas_width + x + 1]
        = IF InRect(iter, x, y)
          THEN rgba.data[(y - iter.y_offset) * rgba.width
                         + (x - iter.x_offset) + 1]
          ELSE Transparent

\* C3: every return of decode after the demuxer was created has deleted the
\* demuxer and released the iterator if one was acquired.
C3_CleanupOnEveryExit ==
  (pc = "done" /\ demux # "none") =>
    (demux = "deleted" /\ iterState # "acquired")

\* C4: the codec's buffer is released only after its pixels were copied into
\* memory decode owns, and no blend reads the released buffer.
C4_CopyBeforeFree ==
  /\ rgba.state = "freed" => frame_slice.owned
  /\ ~readFreed

\* A decode that returned Ok.
Succeeded == pc = "done" /\ result.kind = "Ok"

\* C5: one frame is pushed per tile the iterator yields, while the iterator
\* is at that tile; a decode that returns Ok returns exactly those frames, as
\* many as tiles were yielded, and at least one.
C5_OneFramePerTile ==
  /\ Len(frames) <= Len(durations)
  /\ Len(durations) <= Len(frames) + 1
  /\ pc \in {"next", "release", "delete"} => Len(frames) = Len(durations)
  /\ result.kind = "Ok" =>
       /\ result.frames = frames
       /\ Len(result.frames) = Len(durations)
       /\ Len(result.frames) >= 1

C5_Witness == Succeeded /\ Len(result.frames) = 2

\* timestamp_ms of tile i: when it starts to show, the sum of the durations
\* stored for the tiles before it.
RECURSIVE Timestamp(_)
Timestamp(i) == IF i <= 1 THEN 0 ELSE Timestamp(i - 1) + durations[i - 1]

\* C6 as stated: every frame but the last lasts timestamp[i+1] - timestamp[i]
\* and the last frame reuses timestamp[last] - timestamp[last-1].
C6_TimestampDeltas ==
  result.kind = "Ok" =>
    LET n == Len(result.frames)
    IN /\ \A i \in 1..(n - 1) :
            result.frames[i].duration = Timestamp(i + 1) - Timestamp(i)
       /\ n >= 2 => result.frames[n].duration = Timestamp(n) - Timestamp(n - 1)

\* C6 as amended: every output frame, the last included, lasts the duration
\* the container stores for its own tile; for a frame that is not the last
\* that is timestamp[i+1] - timestamp[i].
C6_StoredDurations ==
  result.kind = "Ok" =>
    LET n == Len(result.frames)
    IN /\ \A i \in 1..n : result.frames[i].duration = durations[i]
       /\ \A i \in 1..(n - 1) :
            result.frames[i].duration = Timestamp(i + 1) - Timestamp(i)

C6_Witness ==
  /\ Succeeded /\ Len(result.frames) = 2
  /\ result.frames[2].duration # Timestamp(2) - Timestamp(1)

\* C7 as stated: a single-frame animation's one frame lasts 100 ms.
C7_SingleFrameDefault ==
  (result.kind = "Ok" /\ Len(durations) = 1) =>
    (Len(result.frames) = 1 /\ result.frames[1].duration = 100)

\* C7 as amended: a single-frame animation decodes to one output frame that
\* lasts the duration the container stores for that frame.
C7_SingleFrameStored ==
  (result.kind = "Ok" /\ Len(durations) = 1) =>
    (Len(result.frames) = 1 /\ result.frames[1].duration = durations[1])

C7_Witness ==
  /\ Succeeded /\ Len(durations) = 1
  /\ result.frames[1].duration = 40

\* The current tile's payload is one the codec cannot decode, and the decode
\* step has acted on it.
CorruptTileDecoded ==
  durations # <<>> /\ iter.fragment = "corrupt" /\ pc # "decode"

\* C8: once the payload of tile k failed to decode, decode has returned the
\* frame-decode error with no frame in it, the k-1 frames composited before
\* are not returned, and the iterator is still at tile k.
C8_DecodeFailureIsFatal ==
  /\ CorruptTileDecoded =>
       /\ pc = "done"
       /\ result = Err(ErrDecode)
       /\ Len(frames) = Len(durations) - 1
  /\ result.msg = ErrDecode => (result.kind = "Err" /\ result.frames = <<>>)

C8_Witness == CorruptTileDecoded /\ pc = "done" /\ Len(frames) = 1

\* decode returned with the demuxer created and no frame ever found.
NoFrameExit == pc = "done" /\ demux = "deleted" /\ iterState = "unset"

\* C9 as stated: both no-frame exits return the one 'no frames found' error,
\* which is not the error of a demuxer that could not be created.
C9_OneNoFramesError ==
  /\ NoFrameExit => result = Err(ErrNoFrames)
  /\ ErrNoFrames # ErrDemux

\* C9 as amended: a frame count of 0 returns "No frames found in the
\* animation", a failed first frame lookup returns "Failed to get frames from
\* WebP animation"; neither is the error of a demuxer that could not be
\* created, which is returned exactly when there is no demuxer.
C9_TwoNoFramesErrors ==
  /\ NoFrameExit =>
       /\ result.kind = "Err"
       /\ frame_count = 0 => result.msg = ErrNoFrames
       /\ frame_count # 0 => result.msg = ErrGetFrame
       /\ result.msg # ErrDemux
  /\ result.msg \in {ErrNoFrames, ErrGetFrame} => NoFrameExit
  /\ result.msg = ErrDemux => (pc = "done" /\ demux = "none")
  /\ Cardinality({ErrDemux, ErrNoFrames, ErrGetFrame}) = 3

C9_Witness == NoFrameExit /\ frame_count # 0

\* The codec returned a buffer of zero width or zero height.
ZeroDimensions ==
  rgba.state \in {"live", "freed"} /\ (rgba.width = 0 \/ rgba.height = 0)

\* C10 as stated: a buffer of zero width or height fails the tile decode step
\* with the frame-decode error, and no output frame comes of that tile.
C10_ZeroDimensionsRejected ==
  ZeroDimensions =>
    /\ pc = "done"
    /\ result = Err(ErrDecode)
    /\ Len(frames) < Len(durations)

\* C10 as amended: the tile decode step fails only on a null pointer. A buffer
\* of zero width or height is composited: its blend changes no pixel, and the
\* output frame pushed for it is the canvas as the disposal step left it.
C10_ZeroDimensionsComposited ==
  /\ result.msg = ErrDecode => iter.fragment = "corrupt"
  /\ ZeroDimensions => result.msg # ErrDecode
  /\ (ZeroDimensions /\ pc = "next") =>
       /\ Len(frames) = Len(durations)
       /\ frames[Len(frames)].image.data
            = Disposed(CanvasBefore(Len(frames)), iter, canvas_width)

C10_Witness == ZeroDimensions /\ pc = "next" /\ Len(frames) = 2

\* ------------------------------------------- claims on disposal and blending

\* The pixels the operation just applied wrote.
Written ==
  IF op.kind = "clear"
  THEN ClearWrites(Len(before), canvas_width, op.x_offset, op.y_offset,
                   op.width, op.height)
  ELSE BlendWrites(Len(before), canvas_width, canvas_height, Len(op.frame_data),
                   op.width, op.height, op.x_offset, op.y_offset)

\* A rectangle with no pixel on the canvas.
FullyOutside(t) ==
  \A x \in 0..(canvas_width - 1), y \in 0..(canvas_height - 1) : ~InRect(t, x, y)

\* C11: disposal and blending write only canvas pixels 0 .. W*H - 1 (bytes
\* [0, W*H*4)), whatever the rectangle; and a rectangle fully outside the
\* canvas changes no pixel.
C11_WritesInsideCanvas ==
  pc \in {"cleared", "blended"} =>
    /\ Written \subseteq 0..(canvas_width * canvas_height - 1)
    /\ Len(canvas) = canvas_width * canvas_height
    /\ FullyOutside(op) => canvas = before

\* C12: background disposal of a rectangle sets every canvas pixel inside it
\* to (0,0,0,0) and leaves every canvas pixel outside it unchanged, also when
\* x_offset + width exceeds the canvas width.
C12_ClearsExactlyTheRectangle ==
  pc = "cleared" =>
    \A x \in 0..(canvas_width - 1), y \in 0..(canvas_height - 1) :
      LET p == y * canvas_width + x + 1
      IN IF InRect(op, x, y) THEN canvas[p] = Transparent
         ELSE canvas[p] = before[p]

\* The pixels <<x, y>> of the blended tile that fall on the canvas, the tile's
\* pixel there, and the canvas pixel (index from 1) it falls on.
TilePixels ==
  {c \in (0..(op.width - 1)) \X (0..(op.height - 1)) :
     c[1] + op.x_offset < canvas_width /\ c[2] + op.y_offset < canvas_height}

Src(c) == op.frame_data[c[2] * op.width + c[1] + 1]

At(c) == (c[2] + op.y_offset) * canvas_width + c[1] + op.x_offset + 1

\* A blend with method Blend that puts (255,0,0,128) over (0,0,255,255).
RedOverBlue(c) == op.blend /\ Src(c) = RedHalf /\ before[At(c)] = Blue

\* C13 (as claimed): blending (255,0,0,128) over (0,0,255,255) yields exactly
\* (128, 0, 128, 255).
C13_RedOverBlueIs128 ==
  pc = "blended" =>
    \A c \in TilePixels : RedOverBlue(c) => canvas[At(c)] = <<128, 0, 128, 255>>

\* C13 (amended): blending (255,0,0,128) over (0,0,255,255) yields exactly
\* (128, 0, 127, 255): blue is round(255 * 127 / 255).
C13_RedOverBlueIs127 ==
  pc = "blended" =>
    \A c \in TilePixels : RedOverBlue(c) => canvas[At(c)] = <<128, 0, 127, 255>>

C13_Witness == pc = "blended" /\ \E c \in TilePixels : RedOverBlue(c)

\* r is v / 255 rounded to the nearest integer (v / 255 is never half-way).
Nearest(r, v) == -255 <= 2 * (255 * r - v) /\ 2 * (255 * r - v) <= 255

\* C14: with method Blend every colour channel of an in-bounds pixel becomes
\* round(src*a/255 + dst*(255-a)/255), a the source alpha, within 0..255, and
\* the canvas alpha becomes 255 whatever the two alphas were.
C14_BlendFormula ==
  (pc = "blended" /\ op.blend) =>
    \A c \in TilePixels :
      /\ Len(canvas[At(c)]) = 4
      /\ canvas[At(c)][4] = 255
      /\ \A i \in 1..3 :
           /\ canvas[At(c)][i] \in 0..255
           /\ Nearest(canvas[At(c)][i],
                      Src(c)[i] * Src(c)[4] + before[At(c)][i] * (255 - Src(c)[4]))

\* A blend of a pixel of alpha 0 over a pixel of alpha 0, and in the same
\* tile a channel whose exact value is not an integer.
C14_Witness ==
  /\ pc = "blended" /\ op.blend
  /\ \E c \in TilePixels : Src(c)[4] = 0 /\ before[At(c)][4] = 0
  /\ \E c \in TilePixels, i \in 1..3 :
       (Src(c)[i] * Src(c)[4] + before[At(c)][i] * (255 - Src(c)[4])) % 255 # 0

\* C15: with method NoBlend every in-bounds pixel of the tile replaces the
\* canvas pixel at (x + x_offset, y + y_offset), all four channels, whatever
\* the canvas held.
C15_NoBlendCopies ==
  (pc = "blended" /\ ~op.blend) =>
    \A c \in TilePixels : canvas[At(c)] = Src(c)

\* A translucent pixel copied over a different one.
C15_Witness ==
  /\ pc = "blended" /\ ~op.blend
  /\ \E c \in TilePixels :
       Src(c)[4] \notin {0, 255} /\ before[At(c)] \notin {Src(c), Transparent}

\* ------------------------------------------------- claims on the accumulator

\* The canvas pixels (by index, from 0) the disposal step of tile t cleared.
ClearedBy(t) ==
  IF t.dispose_method = "BACKGROUND"
  THEN ClearWrites(Len(canvas), canvas_width, t.x_offset, t.y_offset,
                   t.width, t.height)
  ELSE {}

\* The pixels <<x, y>> of the canvas that neither the disposal step of the
\* current tile cleared nor the tile's rectangle covers.
Untouched ==
  {c \in (0..(canvas_width - 1)) \X (0..(canvas_height - 1)) :
     /\ (c[2] * canvas_width + c[1]) \notin ClearedBy(iter)
     /\ ~InRect(iter, c[1], c[2])}

\* Tile i (i >= 2 counting from 1) has been composited and pushed.
LaterFramePushed ==
  /\ pc = "next" /\ Len(frames) >= 2
  /\ Len(canvas) = canvas_width * canvas_height

\* C16: the canvas is never reset between tiles. Every pixel of output frame
\* i that lies outside what the disposal step cleared and outside tile i's
\* rectangle equals the same pixel of output frame i-1; and no step of decode
\* changes a frame that was pushed.
C16_CanvasAccumulates ==
  /\ [](LaterFramePushed =>
          \A c \in Untouched :
            frames[Len(frames)].image.data[c[2] * canvas_width + c[1] + 1]
              = frames[Len(frames) - 1].image.data[c[2] * canvas_width + c[1] + 1])
  /\ [][\A k \in 1..Len(frames) : Len(frames') >= k /\ frames'[k] = frames[k]]_vars

\* A second frame that differs from the first and keeps a pixel the first
\* tile drew.
C16_Witness ==
  /\ LaterFramePushed
  /\ frames[2].image.data # frames[1].image.data
  /\ \E c \in Untouched :
       frames[1].image.data[c[2] * canvas_width + c[1] + 1] # Transparent

\* --------------------------------------------------- claims on the handles

\* The statements of decode that read or advance the frame iterator.
UsesIterator ==
  pc \in {"decode", "free", "dispose", "blend", "snapshot", "next", "release"}

\* C19: within one decode the demuxer is deleted at most once and the
\* iterator released at most once; the iterator is not advanced or read after
\* its release, and not used after the demuxer was deleted. Deleting the
\* demuxer is the last thing decode does before it returns, releasing the
\* iterator is followed by nothing but the delete and the return, and every
\* statement that uses a handle finds it live.
C19_HandlesUsedWhileLive ==
  /\ demux = "deleted" => pc = "done"
  /\ iterState = "released" => pc \in {"delete", "done"}
  /\ UsesIterator => iterState = "acquired" /\ demux = "live"
  /\ pc \in {"info", "getframe", "delete"} => demux = "live"

\* A decode that ran to its end: iterator released, then demuxer deleted.
C19_Witness ==
  /\ pc = "done" /\ result.kind = "Ok"
  /\ iterState = "released" /\ demux = "deleted"

\* ---------------------------------------------------------- claims on playback

\* The current frame is the last one.
AtLastFrame == pc = "playing" /\ current_frame_index = Len(frames) - 1

\* The current frame's duration has elapsed.
DurationElapsed ==
  /\ pc = "playing" /\ current_frame_index < Len(frames)
  /\ Elapsed >= frames[current_frame_index + 1].duration

\* C17: an update on the last frame, its duration elapsed, sets the current
\* frame to index 0 when looping is enabled; with looping disabled the current
\* frame stays at the last index on that update and on every later step for
\* as long as looping stays disabled.
C17_LoopOrStay ==
  /\ [][(Update /\ AtLastFrame /\ DurationElapsed) =>
          current_frame_index' = IF is_looping THEN 0 ELSE Len(frames) - 1]_vars
  /\ [][(AtLastFrame /\ ~is_looping /\ ~is_looping') =>
          current_frame_index' = Len(frames) - 1]_vars

\* An animation of several frames that has wrapped: it is back on frame 0,
\* looping, on a frame change made after time had passed.
C17_Witness ==
  /\ pc = "playing" /\ Len(frames) >= 2
  /\ is_looping /\ current_frame_index = 0 /\ last_frame_time > 0

\* C18: for an animation built by from_file, after any sequence of update,
\* set_looping (and draw) calls, current_frame_index < frames.len() and
\* textures.len() = frames.len(): update never indexes out of range and draw
\* always finds a texture.
C18_IndexInRange ==
  /\ pc # "panicked"
  /\ pc = "playing" =>
       /\ current_frame_index < Len(frames)
       /\ Len(textures) = Len(frames)
       /\ drawn.kind # "nothing"

\* The last frame of a non-looping animation of several frames, held after a
\* frame change and drawn.
C18_Witness ==
  /\ pc = "playing" /\ Len(frames) >= 2
  /\ ~is_looping /\ current_frame_index = Len(frames) - 1
  /\ last_frame_time > 0 /\ last_frame_time = now
  /\ drawn.kind = "texture" /\ drawn.texture = textures[Len(frames)]

\* C20: one update moves the current frame by at most one step: from i to
\* i + 1, from the last index to 0 when looping or to itself when not, or not
\* at all, however much time has elapsed.
C20_OneStepPerUpdate ==
  [][(Update /\ pc = "playing" /\ current_frame_index < Len(frames)) =>
       current_frame_index' \in
         {current_frame_index,
          IF current_frame_index + 1 < Len(frames) THEN current_frame_index + 1
          ELSE IF is_looping THEN 0 ELSE current_frame_index}]_vars

\* Frame 1 of three frames of duration 0, entered at the clock's top: more
\* time had elapsed than all three durations together, and the update moved
\* one frame on.
C20_Witness ==
  /\ pc = "playing" /\ Len(frames) = 3
  /\ \A i \in 1..3 : frames[i].duration = 0
  /\ current_frame_index = 1
  /\ now = MaxTime /\ last_frame_time = now

\* C21: an update made while less time has elapsed since last_frame_time than
\* the current frame's duration changes nothing: current_frame_index,
\* last_frame_time and is_looping (and the frames and textures) stay as they
\* were; and set_looping changes only is_looping.
C21_UpdateWaitsSetLoopingOnlyLoops ==
  /\ [][(Update /\ pc = "playing" /\ current_frame_index < Len(frames)
           /\ Elapsed < frames[current_frame_index + 1].duration) =>
          UNCHANGED <<current_frame_index, last_frame_time, is_looping,
                      frames, textures>>]_vars
  /\ [][SetLooping =>
          UNCHANGED <<current_frame_index, last_frame_time, frames, textures>>]_vars

\* Looping was switched off in the middle of an animation, after a frame
\* change, and the current frame's duration has begun and not yet elapsed:
\* an update now is one that waits.
C21_Witness ==
  /\ pc = "playing" /\ ~is_looping
  /\ current_frame_index > 0 /\ last_frame_time > 0
  /\ 0 < Elapsed /\ Elapsed < frames[current_frame_index + 1].duration

\* An animation is playing.
Playing == pc = "playing"

\* C22: when update is called again and again and time keeps advancing, an
\* animation that is left looping has every one of its frame indices as the
\* current frame infinitely often, frames of duration 0 included; and an
\* animation that is left not looping reaches its last frame and stays on it
\* forever.
C22_EveryFrameShown ==
  /\ \A k \in 0..(MaxFrames - 1) :
       <>[](Playing /\ is_looping) =>
         []<>(Playing /\ (k < Len(frames) => current_frame_index = k))
  /\ <>[](Playing /\ ~is_looping) =>
       <>[](Playing /\ current_frame_index = Len(frames) - 1)

\* A looping animation with a frame of duration 0 that has wrapped round to
\* its first frame.
C22_Witness ==
  /\ Playing /\ is_looping /\ Len(frames) >= 2
  /\ \E i \in 1..Len(frames) : frames[i].duration = 0
  /\ current_frame_index = 0 /\ last_frame_time > 0

====
